---- MODULE Spec2Model ----
(***************************************************************************)
(* A model of relative-artistry: the related-artist walker of              *)
(* artist-relatives.py, the paginated collector and the playlist           *)
(* assembler of spotify_wrapper.py, and the artist resolver.               *)
(*                                                                         *)
(* Each part of the program has its own specification over the shared      *)
(* variables: SpecWalk (_walk_relatives halted by depth), SpecParentWalk   *)
(* (the exclusion precomputation walk), SpecAnyWalk (either), SpecCollect  *)
(* (_collect), SpecPlaylist (_create_playlist and create_playlist),        *)
(* SpecLoad (_load_artist), SpecSelect (the selectors), SpecCompare (the   *)
(* older traversal beside the walk), SpecRun and SpecEntry                 *)
(* (create_relatives_playlist), SpecDeeper (a walk again, one level        *)
(* deeper) and SpecGather (_gather_tracks).  A part that a specification   *)
(* does not use stays in its idle state.                                   *)
(***************************************************************************)
EXTENDS Integers, Sequences, FiniteSets, TLC

(***************************************************************************)
(* Bounds of the model.                                                    *)
(***************************************************************************)
\* artists of the catalog are 1..NumArtists
NumArtists == 4
\* the related-artist relation has at most MaxEdges edges (or is a ScenarioGraph)
MaxEdges == 2
\* max_depth is drawn from -1..MaxDepthArg
MaxDepthArg == 2
\* an explicit exclusion set has at most MaxExcluded members
MaxExcluded == 1
\* the depth counter of a walk that is not halted by depth stops counting here
DepthCap == 5

\* a track list fills up to MaxFullPlaylists playlists, and part of one more
MaxFullPlaylists == 2
\* a collection spans up to three pages and one more item
MaxItems == 151
\* flagged items are at most MaxStride apart
MaxStride == 2
\* the offsets of the first MaxFetches page fetches of a collector call are kept
MaxFetches == 6
\* a selector is given at most MaxCandidates candidates
MaxCandidates == 3
\* the two traversals are compared for max_depth up to MaxCompareDepth
MaxCompareDepth == 3
\* the track lookup returns at most MaxAlbumTracks track ids for an album
MaxAlbumTracks == 2

\* spotify_wrapper.py, lines 11-13
MAX_PLAYLIST_SIZE == 11000
MAX_TRACKS_ADDED == 100
RESULT_LIMIT == 50

Artists == 1..NumArtists

(***************************************************************************)
(* Helpers on sequences and on OrderedSet (a sequence without repeats).    *)
(***************************************************************************)
Range(s) == {s[i] : i \in 1..Len(s)}

NoDuplicates(s) == \A i, j \in 1..Len(s) : s[i] = s[j] => i = j

Min(S) == CHOOSE x \in S : \A y \in S : x <= y

RECURSIVE SortedSeq(_)
\* the members of a set of integers in ascending order
SortedSeq(S) == IF S = {} THEN <<>> ELSE <<Min(S)>> \o SortedSeq(S \ {Min(S)})

RECURSIVE OSUpdate(_, _)
\* OrderedSet.update(items): append, in order, every item not yet a member
OSUpdate(os, items) ==
    IF items = <<>> THEN os
    ELSE OSUpdate(IF Head(items) \in Range(os) THEN os ELSE Append(os, Head(items)),
                  Tail(items))

\* OrderedSet.__isub__(other): discard every member of other, order kept
OSMinus(os, other) == SelectSeq(os, LAMBDA x : x \notin other)

(***************************************************************************)
(* State.                                                                  *)
(***************************************************************************)
VARIABLES
    graph,                \* the catalog's related-artist relation: a set of <<x, y>>
    wpc,                  \* _walk_relatives: "idle", "test", "body", "return", "done"
    root_artist_id,       \* _walk_relatives' arguments
    include_root,
    halt_kind,            \* which halt_condition lambda: "depth" or "target"
    max_depth,            \* self.max_depth, read by the "depth" lambda
    target_id,            \* artist_id captured by the "target" lambda
    excluded_artist_ids,
    visited_artist_ids,   \* _visit_relatives' locals
    artist_ids,
    depth,
    walk_result,          \* what _walk_relatives returned
    related_fetches,      \* the service: the artists whose related artists this
                          \*   walk has asked for, in call order
    body_runs,            \* how many times the body of the while loop has run
    default_excluded_artist_ids,  \* the set() of line 133: the one object every call
                          \*   without excluded_artist_ids is given
    excluded_is_default,  \* whether excluded_artist_ids is that object
    excluded_at_call,     \* the members excluded_artist_ids had when the walk began
    coll_len,             \* the collection a paged operation serves: items 1..coll_len
    coll_first,           \* the first flagged item, and
    coll_stride,          \*   the distance between flagged items
    cpc,                  \* _collect: "idle", "fetch", "check", "done"
    coll_op,              \* the caller of _collect
    values,               \* _collect's locals
    offset,
    next,                 \* next_path.search(result) of the last page, as a truth value
    ppc,                  \* _create_playlist: where it is, see PlaylistIdle
    track_count,          \* len(track_ids) of the list _create_playlist was given
    track_ids,            \* create_playlist's locals
    playlist_track_ids,
    response,
    responses,
    range_offset,         \* the loop variable of the older create_playlist
    playlists,            \* the service: the playlists created, by id
    add_calls,            \* the service: the add-tracks calls received, in order
    playlist_urls,        \* what _create_playlist returned
    raised,               \* the exception that ended the run, or "none"
    is_public,            \* create_playlist's parameter is_public
    caller,               \* who called create_playlist: "_create_playlist", "direct",
                          \*   "relatves-playlist.py" for the older one, or "none"
    called,               \* the service: the operations called so far
    rpc,                  \* _load_artist: "idle", "get_artist", "query", "prompt",
                          \*   "return", "done", "error"
    artist,               \* _load_artist's arguments
    ask,
    artist_name,          \* _load_artist's locals
    artist_id,
    lookups,              \* the service: how many artist() calls it received
    load_result,          \* what _load_artist returned
    load_raised,          \* the exception that ended _load_artist, or "none"
    fetches,              \* the service: the offsets of the page fetches of this
                          \*   _collect call, in order (the first MaxFetches)
    spc,                  \* SearchSelector.select: "idle", "done", "error"
    selector,             \* the class of the selector
    artists,              \* select's argument
    select_result,        \* what select returned
    select_raised,        \* the exception select raised, or <<>>
    lpc,                  \* get_all_related_artists: "idle", "done"
    legacy_result,        \* what get_all_related_artists returned
    has_shallower,        \* whether the walk was run before with max_depth - 1, and
    shallower_result,     \*   what it returned then
    mpc,                  \* create_relatives_playlist: "idle", "parent_walk",
                          \*   "main_walk", "gather"
    self_max_depth,       \* self.max_depth and self.include_root
    self_include_root,
    seed_artist_id,       \* create_relatives_playlist's local artist_id
    explicit_excluded,    \* the ids of its argument excluded_artists
    run_parent_id,        \* its local parent_id, or None without exclude_from_parent
    run_relative_ids,     \* its local relative_ids, given to _gather_tracks
    album_ids_of,         \* the service: what artist_album_ids returns for an artist,
    track_ids_of,         \*   and what album_track_ids returns for an album
    gpc,                  \* _gather_tracks: "idle", "loop", "done"
    gather_artist_ids,    \* _gather_tracks' argument related_artist_ids
    gather_index,         \* how many artists its loop has been through
    gather_track_ids,     \* its local track_ids, and what it returned
    has_first_run,        \* whether _gather_tracks was run before on the same
    first_track_ids       \*   artists, and what it returned then

\* the exclusion set objects, as they were and as they are shared
exclusionObjects == <<default_excluded_artist_ids, excluded_is_default, excluded_at_call>>

walkVars == <<wpc, root_artist_id, include_root, halt_kind, max_depth, target_id,
              excluded_artist_ids, visited_artist_ids, artist_ids, depth, walk_result,
              related_fetches, body_runs, exclusionObjects>>

collection == <<coll_len, coll_first, coll_stride>>

collVars == <<cpc, coll_op, values, offset, next, called, fetches>>

playlistVars == <<ppc, track_count, track_ids, playlist_track_ids, response, responses,
                  range_offset, playlists, add_calls, playlist_urls, raised, is_public,
                  caller>>

loadVars == <<rpc, artist, ask, artist_name, artist_id, lookups, load_result, load_raised>>

selectVars == <<spc, selector, artists, select_result, select_raised>>

legacyVars == <<lpc, legacy_result>>

deeperVars == <<has_shallower, shallower_result>>

runVars == <<mpc, self_max_depth, self_include_root, seed_artist_id, explicit_excluded,
             run_parent_id, run_relative_ids>>

lookupVars == <<album_ids_of, track_ids_of>>

gatherVars == <<gpc, gather_artist_ids, gather_index, gather_track_ids, has_first_run,
                first_track_ids>>

vars == <<graph, walkVars, collection, collVars, playlistVars, loadVars, selectVars,
          legacyVars, deeperVars, runVars, lookupVars, gatherVars>>

\* what the walker leaves alone
walkFrame == <<graph, collection, collVars, playlistVars, loadVars, selectVars, legacyVars,
               deeperVars, runVars,
                lookupVars, gatherVars>>

\* what the collector leaves alone
collFrame == <<graph, walkVars, collection, playlistVars, loadVars, selectVars, legacyVars,
               deeperVars, runVars,
                lookupVars, gatherVars>>

\* what the playlist assembler leaves alone
playlistFrame == <<graph, walkVars, collection, collVars, loadVars, selectVars, legacyVars,
                   deeperVars, runVars,
                    lookupVars, gatherVars>>

\* what _load_artist leaves alone, the collector apart
loadFrame == <<graph, walkVars, collection, playlistVars, selectVars, legacyVars,
               deeperVars, runVars,
                lookupVars, gatherVars>>

\* what a selector leaves alone
selectFrame == <<graph, walkVars, collection, collVars, playlistVars, loadVars, legacyVars,
                 deeperVars, runVars,
                  lookupVars, gatherVars>>

\* what get_all_related_artists leaves alone
legacyFrame == <<graph, walkVars, collection, collVars, playlistVars, loadVars, selectVars,
                 deeperVars, runVars,
                  lookupVars, gatherVars>>

\* what a second, deeper walk leaves alone, the walker apart
deeperFrame == <<graph, collection, collVars, playlistVars, loadVars, selectVars,
                 legacyVars, runVars,
                  lookupVars, gatherVars>>

\* what create_relatives_playlist leaves alone, the walker apart
runFrame == <<graph, collection, collVars, playlistVars, loadVars, selectVars, legacyVars,
              deeperVars,
               lookupVars, gatherVars>>

\* what _gather_tracks leaves alone
gatherFrame == <<graph, walkVars, collection, collVars, playlistVars, loadVars, selectVars,
                 legacyVars, deeperVars, runVars, lookupVars>>

None == 0

(***************************************************************************)
(* The state of a part that is not running.                                *)
(***************************************************************************)
WalkIdle ==
    /\ wpc = "idle"
    /\ root_artist_id = None
    /\ include_root = FALSE
    /\ halt_kind = "depth"
    /\ max_depth = 0
    /\ target_id = None
    /\ excluded_artist_ids = {}
    /\ visited_artist_ids = <<>>
    /\ artist_ids = <<>>
    /\ depth = 0
    /\ walk_result = <<>>
    /\ related_fetches = <<>>
    /\ body_runs = 0
    /\ default_excluded_artist_ids = {}
    /\ excluded_is_default = FALSE
    /\ excluded_at_call = {}

CollectIdle ==
    /\ cpc = "idle"
    /\ coll_op = "album_track_ids"
    /\ values = <<>>
    /\ offset = 0
    /\ next = FALSE
    /\ called = {}
    /\ fetches = <<>>

LoadIdle ==
    /\ rpc = "idle"
    /\ artist = <<>>
    /\ ask = FALSE
    /\ artist_name = <<>>
    /\ artist_id = <<>>
    /\ lookups = 0
    /\ load_result = <<>>
    /\ load_raised = "none"

\* ppc is "idle"; in create_playlist "outer" (line 58), "create" (line 60),
\* "inner" (lines 61-63); back in _create_playlist "created" (line 115),
\* "rename" (lines 116-118), "done"; in the older create_playlist "legacy_add";
\* and "error" once an exception has ended the run
PlaylistIdle ==
    /\ ppc = "idle"
    /\ track_count = 0
    /\ track_ids = <<>>
    /\ playlist_track_ids = <<>>
    /\ response = None
    /\ responses = <<>>
    /\ range_offset = 0
    /\ playlists = <<>>
    /\ add_calls = <<>>
    /\ playlist_urls = <<>>
    /\ raised = "none"
    /\ is_public = FALSE
    /\ caller = "none"

SelectIdle ==
    /\ spc = "idle"
    /\ selector = "Halt"
    /\ artists = <<>>
    /\ select_result = <<>>
    /\ select_raised = <<>>

LegacyIdle ==
    /\ lpc = "idle"
    /\ legacy_result = <<>>

DeeperIdle ==
    /\ has_shallower = FALSE
    /\ shallower_result = <<>>

RunIdle ==
    /\ mpc = "idle"
    /\ self_max_depth = 0
    /\ self_include_root = FALSE
    /\ seed_artist_id = None
    /\ explicit_excluded = {}
    /\ run_parent_id = None
    /\ run_relative_ids = <<>>

NoLookups ==
    /\ album_ids_of = <<>>
    /\ track_ids_of = <<>>

GatherIdle ==
    /\ gpc = "idle"
    /\ gather_artist_ids = <<>>
    /\ gather_index = 0
    /\ gather_track_ids = <<>>
    /\ has_first_run = FALSE
    /\ first_track_ids = <<>>

\* the selectors, the older traversal, a second walk, the whole run and the
\* gathering of tracks are not running
RestIdle == SelectIdle /\ LegacyIdle /\ DeeperIdle /\ RunIdle /\ NoLookups /\ GatherIdle

NoCollection ==
    /\ coll_len = 0
    /\ coll_first = 1
    /\ coll_stride = 1

(***************************************************************************)
(* The catalog: every relation over Artists with at most MaxEdges edges.   *)
(***************************************************************************)
\* the catalog never lists an artist as related to itself
AllEdges == {e \in Artists \X Artists : e[1] # e[2]}

RECURSIVE EdgeSetsUpTo(_)
EdgeSetsUpTo(k) ==
    IF k = 0 THEN {{}}
    ELSE LET smaller == EdgeSetsUpTo(k - 1)
         IN  smaller \cup {g \cup {e} : g \in smaller, e \in AllEdges}

\* A -> {B, C}, B -> {D}, C -> {} with A, B, C, D = 1, 2, 3, 4
ScenarioGraph == {<<1, 2>>, <<1, 3>>, <<2, 4>>}

\* two paths from 1 to 4, and a cycle back to 1
DiamondGraph == {<<1, 2>>, <<1, 3>>, <<2, 4>>, <<3, 4>>, <<4, 1>>}

\* artist 5 is two steps from 1 through 3 and three steps through 2 and 4,
\* and 6 is related to 5 only
ShortcutGraph == {<<1, 2>>, <<1, 3>>, <<2, 4>>, <<4, 5>>, <<3, 5>>, <<5, 6>>}

\* 4 is related to 1, and is also three steps from 1 through 2 and 3
DetourGraph == {<<1, 4>>, <<1, 2>>, <<2, 3>>, <<3, 4>>}

Graphs == EdgeSetsUpTo(MaxEdges) \cup {ScenarioGraph, DiamondGraph, DetourGraph}

ExclusionSets == {E \in SUBSET Artists : Cardinality(E) <= MaxExcluded}

\* SpotifyWrapper.related_artist_ids: the catalog's list for one artist
related_artist_ids(g, a) == SortedSeq({e[2] : e \in {f \in g : f[1] = a}})

(***************************************************************************)
(* ArtistRelativesApp._walk_relatives                                      *)
(***************************************************************************)
\* a search-mode halt condition that also stops after the first level
halt_conditionFirstLevel(kind, visited_ids, d, md, tgt) ==
    IF kind = "depth" THEN d >= md ELSE tgt \in Range(visited_ids) \/ d >= 1

\* a depth halt condition that lets one level more through
halt_conditionPastDepth(kind, visited_ids, d, md, tgt) ==
    IF kind = "depth" THEN d > md ELSE tgt \in Range(visited_ids)

\* the two halt_condition lambdas of create_relatives_playlist
halt_condition(kind, visited_ids, d, md, tgt) ==
    IF kind = "depth" THEN d >= md ELSE tgt \in Range(visited_ids)

RECURSIVE GatherRelatives(_, _, _)
\* lines 140-142: relative_ids.update(related_artist_ids(a)) for a in artist_ids
GatherRelatives(g, frontier, acc) ==
    IF frontier = <<>> THEN acc
    ELSE GatherRelatives(g, Tail(frontier),
                         OSUpdate(acc, related_artist_ids(g, Head(frontier))))

\* a level that forgets to remove the excluded artists
NewRelativesNoExclusion(g, frontier, visited_ids, excluded) ==
    OSMinus(GatherRelatives(g, frontier, <<>>), Range(visited_ids))

\* a level that removes the excluded artists from the frontier it expands
\* instead of from the relatives it found
NewRelativesExcludedSources(g, frontier, visited_ids, excluded) ==
    OSMinus(GatherRelatives(g, OSMinus(frontier, excluded), <<>>), Range(visited_ids))

\* a level that keeps the relatives already visited
NewRelativesKeepsVisited(g, frontier, visited_ids, excluded) ==
    OSMinus(GatherRelatives(g, frontier, <<>>), excluded)

\* lines 140-144: the new relatives of one level
NewRelatives(g, frontier, visited_ids, excluded) ==
    OSMinus(OSMinus(GatherRelatives(g, frontier, <<>>), Range(visited_ids)), excluded)

\* a depth that counts two for a level
NextDepthByTwo(kind, d) == IF kind = "target" /\ d >= DepthCap THEN d ELSE d + 2

\* depth += 1; a walk that is not halted by depth stops counting at DepthCap
NextDepth(kind, d) == IF kind = "target" /\ d >= DepthCap THEN d ELSE d + 1

\* one more run of the loop body (lines 139-150), counted as far as depth is
CountRun(kind, n) == IF kind = "target" /\ n >= DepthCap THEN n ELSE n + 1

\* the call: the parameters bound (line 133) and _visit_relatives' locals
\* initialised (lines 135-137)
WalkEnterWith(root, inc, kind, md, tgt, excluded, is_default) ==
    /\ wpc' = "test"
    /\ root_artist_id' = root
    /\ include_root' = inc
    /\ halt_kind' = kind
    /\ max_depth' = md
    /\ target_id' = tgt
    /\ excluded_artist_ids' = excluded
    /\ visited_artist_ids' = <<root>>
    /\ artist_ids' = <<root>>
    /\ depth' = 0
    /\ walk_result' = <<>>
    /\ related_fetches' = <<>>
    /\ body_runs' = 0
    /\ excluded_is_default' = is_default
    /\ excluded_at_call' = excluded
    /\ UNCHANGED default_excluded_artist_ids

\* a call that passes excluded_artist_ids
WalkEnter(root, inc, kind, md, tgt, excluded) ==
    WalkEnterWith(root, inc, kind, md, tgt, excluded, FALSE)

\* a call that does not: excluded_artist_ids is the default object of line 133
WalkEnterDefault(root, inc, kind, md, tgt) ==
    WalkEnterWith(root, inc, kind, md, tgt, default_excluded_artist_ids, TRUE)

\* line 138: the while test
WalkTest ==
    /\ wpc = "test"
    /\ wpc' = IF halt_condition(halt_kind, visited_artist_ids, depth, max_depth, target_id)
              THEN "return" ELSE "body"
    /\ UNCHANGED walkFrame
    /\ UNCHANGED <<root_artist_id, include_root, halt_kind, max_depth, target_id,
                   excluded_artist_ids, visited_artist_ids, artist_ids, depth, walk_result,
                   related_fetches, body_runs, exclusionObjects>>

\* a level that adds the new relatives to the exclusion set as well, and so
\* to the default object when the exclusion set is the default
WalkBodyUpdatesExcluded ==
    /\ wpc = "body"
    /\ LET relative_ids == NewRelatives(graph, artist_ids, visited_artist_ids,
                                        excluded_artist_ids)
       IN  /\ visited_artist_ids' = OSUpdate(visited_artist_ids, relative_ids)
           /\ artist_ids' = relative_ids
           /\ excluded_artist_ids' = excluded_artist_ids \cup Range(relative_ids)
           /\ default_excluded_artist_ids' =
                 IF excluded_is_default
                 THEN default_excluded_artist_ids \cup Range(relative_ids)
                 ELSE default_excluded_artist_ids
    /\ related_fetches' = related_fetches \o artist_ids
    /\ body_runs' = CountRun(halt_kind, body_runs)
    /\ depth' = NextDepth(halt_kind, depth)
    /\ wpc' = "test"
    /\ UNCHANGED walkFrame
    /\ UNCHANGED <<root_artist_id, include_root, halt_kind, max_depth, target_id,
                   walk_result, excluded_is_default, excluded_at_call>>

\* a level that leaves all the artists visited as the next frontier
WalkBodyRefetchesAll ==
    /\ wpc = "body"
    /\ LET relative_ids == NewRelatives(graph, artist_ids, visited_artist_ids,
                                        excluded_artist_ids)
       IN  /\ visited_artist_ids' = OSUpdate(visited_artist_ids, relative_ids)
           /\ artist_ids' = OSUpdate(visited_artist_ids, relative_ids)
    /\ related_fetches' = related_fetches \o artist_ids
    /\ body_runs' = CountRun(halt_kind, body_runs)
    /\ depth' = NextDepth(halt_kind, depth)
    /\ wpc' = "test"
    /\ UNCHANGED walkFrame
    /\ UNCHANGED <<root_artist_id, include_root, halt_kind, max_depth, target_id,
                   excluded_artist_ids, walk_result, exclusionObjects>>

\* lines 139-150: one level; line 142 calls related_artist_ids once for every
\* artist of artist_ids
WalkBody ==
    /\ wpc = "body"
    /\ LET relative_ids == NewRelatives(graph, artist_ids, visited_artist_ids,
                                        excluded_artist_ids)
       IN  /\ visited_artist_ids' = OSUpdate(visited_artist_ids, relative_ids)
           /\ artist_ids' = relative_ids
    /\ related_fetches' = related_fetches \o artist_ids
    /\ body_runs' = CountRun(halt_kind, body_runs)
    /\ depth' = NextDepth(halt_kind, depth)
    /\ wpc' = "test"
    /\ UNCHANGED walkFrame
    /\ UNCHANGED <<root_artist_id, include_root, halt_kind, max_depth, target_id,
                   excluded_artist_ids, walk_result, exclusionObjects>>

\* a return of the last level found instead of all the artists visited
WalkReturnLastLevel ==
    /\ wpc = "return"
    /\ walk_result' = IF ~include_root
                      THEN OSMinus(artist_ids, {root_artist_id})
                      ELSE artist_ids
    /\ wpc' = "done"
    /\ UNCHANGED walkFrame
    /\ UNCHANGED <<root_artist_id, include_root, halt_kind, max_depth, target_id,
                   excluded_artist_ids, visited_artist_ids, artist_ids, depth,
                   related_fetches, body_runs, exclusionObjects>>

\* lines 153-156
WalkReturn ==
    /\ wpc = "return"
    /\ walk_result' = IF ~include_root
                      THEN OSMinus(visited_artist_ids, {root_artist_id})
                      ELSE visited_artist_ids
    /\ wpc' = "done"
    /\ UNCHANGED walkFrame
    /\ UNCHANGED <<root_artist_id, include_root, halt_kind, max_depth, target_id,
                   excluded_artist_ids, visited_artist_ids, artist_ids, depth,
                   related_fetches, body_runs, exclusionObjects>>

\* a direct call of _walk_relatives with the depth halt condition (line 213)
DirectCall ==
    /\ wpc = "idle"
    /\ \E root \in Artists, inc \in BOOLEAN, md \in -1..MaxDepthArg, excluded \in ExclusionSets :
          WalkEnter(root, inc, "depth", md, None, excluded)
    /\ UNCHANGED walkFrame

\* lines 205-209: the exclusion precomputation walks from the parent until the
\* seed artist is visited, with include_root True and the default exclusion set
ParentCall ==
    /\ wpc = "idle"
    /\ \E parent_id \in Artists, seed_id \in Artists :
          WalkEnterDefault(parent_id, TRUE, "target", 0, seed_id)
    /\ UNCHANGED walkFrame

(***************************************************************************)
(* SpotifyWrapper._collect, and the paged operations of the service.       *)
(***************************************************************************)
\* the callers of _collect: album_track_ids, artist_album_ids, search_artist_ids
CollectOps == {"album_track_ids", "artist_album_ids", "search_artist_ids"}

\* the first flagged item is the first or the second item of the collection,
\* or the first item of its second page, or no item is flagged at all
FirstFlagged == {1, 2, RESULT_LIMIT + 1, MaxItems + 1}

\* item i is an album with exactly one artist (ALBUM_ID_PATH), or an artist
\* whose name is the name searched for (SEARCH_ARTIST_ID_PATH_FORMAT)
Flagged(i) == i >= coll_first /\ (i - coll_first) % coll_stride = 0

\* value_path: TRACK_ID_PATH keeps every item of a page, the other two paths
\* keep the flagged ones
Accepts(op, i) == op = "album_track_ids" \/ Flagged(i)

\* the service: the items of the window [off, off + limit) of the collection
PageItems(off, limit) ==
    IF off >= coll_len THEN <<>>
    ELSE [i \in 1..(IF coll_len - off < limit THEN coll_len - off ELSE limit) |-> off + i]

\* the service reports a continuation exactly when items remain beyond the window
PageNext(off, limit) == off + limit < coll_len

\* value_path.search(result)
ExtractValues(op, page) == SelectSeq(page, LAMBDA i : Accepts(op, i))

\* a halt that never stops the collector early
HaltsNever(op, vals) == FALSE

\* halt: search_artist_ids passes lambda values: values, the others the default
Halts(op, vals) == op = "search_artist_ids" /\ vals # <<>>

\* the operation of the service that a caller of _collect passes as op
\* (lines 34, 37, 42)
ServiceOp(op) ==
    CASE op = "album_track_ids" -> "album_tracks"
      [] op = "artist_album_ids" -> "artist_albums"
      [] op = "search_artist_ids" -> "search"

\* lines 21-22
CollectEnter(op) ==
    /\ coll_op' = op
    /\ values' = <<>>
    /\ offset' = 0
    /\ next' = FALSE
    /\ cpc' = "fetch"
    /\ fetches' = <<>>
    /\ UNCHANGED called

\* a call by one of the three callers (lines 33-43)
CollectCall ==
    /\ cpc = "idle"
    /\ \E op \in CollectOps : CollectEnter(op)
    /\ UNCHANGED collFrame

\* lines 24-26
CollectFetch ==
    /\ cpc = "fetch"
    /\ values' = values \o ExtractValues(coll_op, PageItems(offset, RESULT_LIMIT))
    /\ next' = PageNext(offset, RESULT_LIMIT)
    /\ called' = called \cup {ServiceOp(coll_op)}
    /\ fetches' = IF Len(fetches) < MaxFetches THEN Append(fetches, offset) ELSE fetches
    /\ cpc' = "check"
    /\ UNCHANGED <<coll_op, offset>>
    /\ UNCHANGED collFrame

\* line 30
AdvanceOffset(off, vals) == off + Len(vals)

\* lines 27-31
CollectCheck ==
    /\ cpc = "check"
    /\ IF Halts(coll_op, values) \/ ~next
       THEN cpc' = "done" /\ offset' = offset
       ELSE cpc' = "fetch" /\ offset' = AdvanceOffset(offset, values)
    /\ UNCHANGED <<coll_op, values, next, called, fetches>>
    /\ UNCHANGED collFrame

(***************************************************************************)
(* SpotifyWrapper.create_playlist and ArtistRelativesApp._create_playlist. *)
(***************************************************************************)
\* the lengths of the track lists tried: around every multiple of
\* MAX_PLAYLIST_SIZE, whole and partial add-tracks calls beyond it
TrackCounts ==
    {n \in {k * MAX_PLAYLIST_SIZE + r :
               k \in 0..MaxFullPlaylists,
               r \in {-1, 0, 1, MAX_TRACKS_ADDED - 1, MAX_TRACKS_ADDED, MAX_TRACKS_ADDED + 1,
                      2 * MAX_TRACKS_ADDED + 50}} : n >= 0}

\* the track ids gathered: the n-th track is n
Tracks(n) == [i \in 1..n |-> i]

\* s[:n] and s[n:]
Take(s, n) == SubSeq(s, 1, IF Len(s) < n THEN Len(s) ELSE n)
Drop(s, n) == SubSeq(s, n + 1, Len(s))

\* playlist_name_format.replace("<artist>", artist_name), line 112
PlaylistBaseName == <<"base">>

\* "{0} (part {1})".format(playlist_base_name, index + 1), line 117; index from 0
PartName(base, index) == base \o <<"part", index + 1>>

\* response["external_urls"]["spotify"] of the playlist with this id
PlaylistUrl(id) == <<"url", id>>

\* a chunk that loses the track after it
RestAfterPlaylistSkipsOne(tracks) == Drop(tracks, MAX_PLAYLIST_SIZE + 1)

\* line 59: track_ids[:MAX_PLAYLIST_SIZE] and track_ids[MAX_PLAYLIST_SIZE:]
PlaylistChunk(tracks) == Take(tracks, MAX_PLAYLIST_SIZE)
RestAfterPlaylist(tracks) == Drop(tracks, MAX_PLAYLIST_SIZE)

\* an add-tracks call that sends all the tracks that are left
TracksToAddUnsliced(tracks) == tracks

\* lines 67-68: track_ids[:MAX_TRACKS_ADDED] and track_ids[MAX_TRACKS_ADDED:]
TracksToAdd(tracks) == Take(tracks, MAX_TRACKS_ADDED)
RestAfterAdd(tracks) == Drop(tracks, MAX_TRACKS_ADDED)

\* the names _create_playlist (lines 111-119) can read: its parameters and
\* locals, and the globals of artist-relatives.py (lines 1-71, 73, 227-232)
CreatePlaylistLocals ==
    {"self", "artist_name", "track_ids", "playlist_name_format", "playlist_base_name",
     "responses", "index", "response", "playlist_name"}
ModuleGlobals ==
    {"argparse", "functools", "itertools", "logging", "operator", "jmespath", "spotipy",
     "OrderedSet", "SpotifyWrapper", "DEFAULT_DEPTH", "DEFAULT_PLAYLIST_NAME", "CACHE_NAME",
     "MAX_VERBOSITY_LEVEL", "SCOPES", "VERBOSITY_MAP", "parse_args", "get_client",
     "ArtistRelativesApp", "args", "verbosity", "spotify", "artist_relatives_app"}
NameIsBound(name) == name \in CreatePlaylistLocals \cup ModuleGlobals

\* lines 112-113 and 56-57: _create_playlist calls create_playlist, and passes
\* no is_public
CreatePlaylistCall ==
    /\ ppc = "idle"
    /\ \E n \in TrackCounts :
          /\ track_count' = n
          /\ track_ids' = Tracks(n)
    /\ responses' = <<>>
    /\ ppc' = "outer"
    /\ is_public' = FALSE
    /\ caller' = "_create_playlist"
    /\ UNCHANGED <<playlist_track_ids, response, range_offset, playlists, add_calls,
                   playlist_urls, raised>>
    /\ UNCHANGED playlistFrame

\* lines 56-57: a call of create_playlist by itself, with is_public passed
CreatePlaylistDirect ==
    /\ ppc = "idle"
    /\ \E n \in TrackCounts, public \in BOOLEAN :
          /\ track_count' = n
          /\ track_ids' = Tracks(n)
          /\ is_public' = public
    /\ responses' = <<>>
    /\ ppc' = "outer"
    /\ caller' = "direct"
    /\ UNCHANGED <<playlist_track_ids, response, range_offset, playlists, add_calls,
                   playlist_urls, raised>>
    /\ UNCHANGED playlistFrame

\* lines 58-59 and 64: the outer while
OuterLoop ==
    /\ ppc = "outer"
    /\ IF track_ids # <<>>
       THEN /\ playlist_track_ids' = PlaylistChunk(track_ids)
            /\ track_ids' = RestAfterPlaylist(track_ids)
            /\ ppc' = "create"
       ELSE /\ ppc' = "created"
            /\ UNCHANGED <<playlist_track_ids, track_ids>>
    /\ UNCHANGED <<track_count, response, responses, range_offset, playlists, add_calls,
                   playlist_urls, raised>>
    /\ UNCHANGED <<is_public, caller>>
    /\ UNCHANGED playlistFrame

\* line 60: user_playlist_create(username, name, public=is_public)
UserPlaylistCreate ==
    /\ ppc = "create"
    /\ playlists' = Append(playlists, [name |-> PlaylistBaseName, public |-> is_public])
    /\ response' = Len(playlists) + 1
    /\ ppc' = "inner"
    /\ UNCHANGED <<track_count, track_ids, playlist_track_ids, responses, range_offset,
                   add_calls, playlist_urls, raised>>
    /\ UNCHANGED <<is_public, caller>>
    /\ UNCHANGED playlistFrame

\* an add-tracks call that goes to the first playlist of the call
PlaylistAddTracksToFirst ==
    /\ ppc = "inner"
    /\ playlist_track_ids # <<>>
    /\ add_calls' = Append(add_calls, [id |-> 1, tracks |-> TracksToAdd(playlist_track_ids)])
    /\ playlist_track_ids' = RestAfterAdd(playlist_track_ids)
    /\ UNCHANGED <<ppc, track_count, track_ids, response, responses, range_offset,
                   playlists, playlist_urls, raised>>
    /\ UNCHANGED <<is_public, caller>>
    /\ UNCHANGED playlistFrame

\* lines 61-62 and 66-68: one playlist_add_tracks call
PlaylistAddTracks ==
    /\ ppc = "inner"
    /\ playlist_track_ids # <<>>
    /\ add_calls' = Append(add_calls, [id |-> response,
                                       tracks |-> TracksToAdd(playlist_track_ids)])
    /\ playlist_track_ids' = RestAfterAdd(playlist_track_ids)
    /\ UNCHANGED <<ppc, track_count, track_ids, response, responses, range_offset,
                   playlists, playlist_urls, raised>>
    /\ UNCHANGED <<is_public, caller>>
    /\ UNCHANGED playlistFrame

\* line 63
AppendResponse ==
    /\ ppc = "inner"
    /\ playlist_track_ids = <<>>
    /\ responses' = Append(responses, response)
    /\ ppc' = "outer"
    /\ UNCHANGED <<track_count, track_ids, playlist_track_ids, response, range_offset,
                   playlists, add_calls, playlist_urls, raised>>
    /\ UNCHANGED <<is_public, caller>>
    /\ UNCHANGED playlistFrame

\* lines 115 and 119, back in _create_playlist
AfterCreate ==
    /\ ppc = "created"
    /\ caller = "_create_playlist"
    /\ IF Len(responses) > 1
       THEN /\ range_offset' = 0
            /\ ppc' = "rename"
            /\ UNCHANGED playlist_urls
       ELSE /\ playlist_urls' = [i \in 1..Len(responses) |-> PlaylistUrl(responses[i])]
            /\ ppc' = "done"
            /\ UNCHANGED range_offset
    /\ UNCHANGED <<track_count, track_ids, playlist_track_ids, response, responses,
                   playlists, add_calls, raised>>
    /\ UNCHANGED <<is_public, caller>>
    /\ UNCHANGED playlistFrame

\* lines 116-119: the loop over enumerate(responses); range_offset is index.
\* Line 118 reads the name username, which is unbound there, before it calls
\* playlist_edit (lines 70-71).
RenameParts ==
    /\ ppc = "rename"
    /\ IF range_offset < Len(responses)
       THEN IF NameIsBound("username")
            THEN /\ playlists' = [playlists EXCEPT
                                     ![responses[range_offset + 1]].name =
                                         PartName(PlaylistBaseName, range_offset)]
                 /\ range_offset' = range_offset + 1
                 /\ UNCHANGED <<ppc, playlist_urls, raised>>
            ELSE /\ raised' = "NameError"
                 /\ ppc' = "error"
                 /\ UNCHANGED <<playlists, range_offset, playlist_urls>>
       ELSE /\ playlist_urls' = [i \in 1..Len(responses) |-> PlaylistUrl(responses[i])]
            /\ ppc' = "done"
            /\ UNCHANGED <<playlists, range_offset, raised>>
    /\ UNCHANGED <<track_count, track_ids, playlist_track_ids, response, responses,
                   add_calls>>
    /\ UNCHANGED <<is_public, caller>>
    /\ UNCHANGED playlistFrame

\* a call to the service raises instead of answering (section 7: not caught)
ServiceRaises ==
    /\ \/ ppc = "create"
       \/ ppc = "inner" /\ playlist_track_ids # <<>>
       \/ ppc = "legacy_add" /\ range_offset < Len(track_ids)
    /\ raised' = "service"
    /\ ppc' = "error"
    /\ UNCHANGED <<track_count, track_ids, playlist_track_ids, response, responses,
                   range_offset, playlists, add_calls, playlist_urls>>
    /\ UNCHANGED <<is_public, caller>>
    /\ UNCHANGED playlistFrame

\* relatves-playlist.py, lines 57-60: the older create_playlist makes one playlist
LegacyCreatePlaylist ==
    /\ ppc = "idle"
    /\ \E n \in TrackCounts :
          /\ track_count' = n
          /\ track_ids' = Tracks(n)
    /\ playlists' = Append(playlists, [name |-> PlaylistBaseName, public |-> FALSE])
    /\ response' = Len(playlists) + 1
    /\ range_offset' = 0
    /\ ppc' = "legacy_add"
    /\ caller' = "relatves-playlist.py"
    /\ UNCHANGED <<playlist_track_ids, responses, add_calls, playlist_urls, raised,
                   is_public>>
    /\ UNCHANGED playlistFrame

\* relatves-playlist.py, lines 63-66: for offset in range(0, len(track_ids), 100)
LegacyAddTracks ==
    /\ ppc = "legacy_add"
    /\ IF range_offset < Len(track_ids)
       THEN /\ add_calls' = Append(add_calls,
                   [id |-> response,
                    tracks |-> Take(Drop(track_ids, range_offset), MAX_TRACKS_ADDED)])
            /\ range_offset' = range_offset + MAX_TRACKS_ADDED
            /\ UNCHANGED <<ppc, playlist_urls>>
       ELSE /\ playlist_urls' = <<PlaylistUrl(response)>>
            /\ ppc' = "legacy_done"
            /\ UNCHANGED <<add_calls, range_offset>>
    /\ UNCHANGED <<track_count, track_ids, playlist_track_ids, response, responses,
                   playlists, raised>>
    /\ UNCHANGED <<is_public, caller>>
    /\ UNCHANGED playlistFrame

(***************************************************************************)
(* ArtistRelativesApp._load_artist and _query_artist_id_by_name.           *)
(* The artists of the catalog are the items 1..coll_len that a search for  *)
(* SearchedName returns, in that order; the flagged ones bear that name.   *)
(***************************************************************************)
\* the catalog id, the name and the popularity of the artist that is item i
ArtistIdOf(i) == <<"id", i>>
SearchedName == <<"name", "searched">>
OtherName == <<"name", "other">>
NameOf(i) == IF Flagged(i) THEN SearchedName ELSE OtherName
PopularityOf(i) == (i * i) % 7

\* the URI of the artist that is item i
ArtistUri(i) == <<"spotify:artist:", ArtistIdOf(i)>>

\* what _load_artist is given: the URI of an artist, or the name
ArtistRefs == {ArtistUri(i) : i \in Artists} \cup {SearchedName}

\* spotify_wrapper.py, lines 78-80: artist.startswith("spotify:artist:")
is_artist_uri(ref) == ref[1] = "spotify:artist:"

\* the service: whether artist(uri) finds an artist, and the object it answers
ArtistExists(uri) == uri[2][2] \in 1..coll_len
ArtistObject(uri) == [id |-> uri[2], name |-> NameOf(uri[2][2])]

\* spotify_wrapper.py, lines 49-51: what get_artist returns
get_artist(uri) == <<ArtistObject(uri).id, ArtistObject(uri).name>>

\* line 182: sorted(exact_matches, key=popularity, reverse=True)[0], a stable
\* sort: the first of the most popular matches
MostPopularMatch(matches) ==
    matches[CHOOSE k \in 1..Len(matches) :
               /\ \A j \in 1..Len(matches) :
                     PopularityOf(matches[j]) <= PopularityOf(matches[k])
               /\ \A j \in 1..(k - 1) :
                     PopularityOf(matches[j]) < PopularityOf(matches[k])]

\* line 202 and lines 189, 193-195: the call, and the branch on the reference
LoadArtistCall ==
    /\ rpc = "idle"
    /\ \E ref \in ArtistRefs, a \in BOOLEAN :
          /\ artist' = ref
          /\ ask' = a
          /\ IF is_artist_uri(ref)
             THEN /\ rpc' = "get_artist"
                  /\ UNCHANGED <<artist_name, collVars>>
             ELSE /\ rpc' = "query"
                  /\ artist_name' = ref
                  /\ CollectEnter("search_artist_ids")
    /\ UNCHANGED <<artist_id, lookups, load_result, load_raised>>
    /\ UNCHANGED loadFrame

\* line 191, with get_artist (spotify_wrapper.py, lines 49-51)
GetArtist ==
    /\ rpc = "get_artist"
    /\ called' = called \cup {"artist"}
    /\ lookups' = lookups + 1
    /\ IF ArtistExists(artist)
       THEN /\ artist_name' = get_artist(artist)[1]
            /\ artist_id' = get_artist(artist)[2]
            /\ rpc' = "return"
            /\ UNCHANGED load_raised
       ELSE /\ load_raised' = "service"
            /\ rpc' = "error"
            /\ UNCHANGED <<artist_name, artist_id>>
    /\ UNCHANGED <<artist, ask, load_result>>
    /\ UNCHANGED <<cpc, coll_op, values, offset, next, fetches>>
    /\ UNCHANGED loadFrame

\* lines 173-186 and 196-198, once search_artist_ids has returned values
QueryResult ==
    /\ rpc = "query"
    /\ cpc = "done"
    /\ IF values = <<>>
       THEN /\ load_raised' = "ValueError"
            /\ rpc' = "error"
            /\ UNCHANGED artist_id
       ELSE IF Len(values) > 1 /\ ask
       THEN /\ rpc' = "prompt"
            /\ UNCHANGED <<artist_id, load_raised>>
       ELSE /\ artist_id' = ArtistIdOf(IF Len(values) > 1 THEN MostPopularMatch(values)
                                       ELSE values[1])
            /\ rpc' = "return"
            /\ UNCHANGED load_raised
    /\ UNCHANGED <<artist, ask, artist_name, lookups, load_result>>
    /\ UNCHANGED collVars
    /\ UNCHANGED loadFrame

\* lines 158-170 and 180, 186: one artist() call per match, then the user
\* enters an index that line 169 accepts; line 169 compares it with the
\* number of keys of the last artist object, so an index past the matches
\* can be accepted, and line 170 then raises
PromptForArtist ==
    /\ rpc = "prompt"
    /\ called' = called \cup {"artist"}
    /\ lookups' = lookups + Len(values)
    /\ \/ \E artist_index \in 1..Len(values) :
             /\ artist_id' = ArtistIdOf(values[artist_index])
             /\ rpc' = "return"
             /\ UNCHANGED load_raised
       \/ /\ load_raised' = "IndexError"
          /\ rpc' = "error"
          /\ UNCHANGED artist_id
    /\ UNCHANGED <<artist, ask, artist_name, load_result>>
    /\ UNCHANGED <<cpc, coll_op, values, offset, next, fetches>>
    /\ UNCHANGED loadFrame

\* line 199
LoadReturn ==
    /\ rpc = "return"
    /\ load_result' = <<artist_id, artist_name>>
    /\ rpc' = "done"
    /\ UNCHANGED <<artist, ask, artist_name, artist_id, lookups, load_raised>>
    /\ UNCHANGED collVars
    /\ UNCHANGED loadFrame

(***************************************************************************)
(* search_selectors.py: SearchSelector.select and its three subclasses,    *)
(* and the choice among several exact matches of line 182.                 *)
(***************************************************************************)
Selectors == {"MostPopular", "MostFollowed", "Halt"}

\* an artist object of a search result: its URI, its popularity score and
\* its followers.total
Popularities == {80, 95}
FollowerTotals == {10, 20}
Candidates == [uri : 1..MaxCandidates, popularity : Popularities, followers : FollowerTotals]

\* the lists of artists a selector is given: no artist is listed twice
CandidateLists ==
    {l \in UNION {[1..n -> Candidates] : n \in 0..MaxCandidates} :
        \A i, j \in 1..Len(l) : l[i].uri = l[j].uri => i = j}

\* jmespath's null, None in Python
Null == <<>>

\* the sort keys &popularity and &followers.total
Score(field, a) == IF field = "popularity" THEN a.popularity ELSE a.followers

RECURSIVE sort_by(_, _)
\* jmespath's sort_by(@, &field): a stable sort, ascending
sort_by(arts, field) ==
    IF arts = <<>> THEN <<>>
    ELSE LET x == arts[Len(arts)]
             before == sort_by(SubSeq(arts, 1, Len(arts) - 1), field)
             k == Cardinality({i \in 1..Len(before) :
                                  Score(field, before[i]) <= Score(field, x)})
         IN  SubSeq(before, 1, k) \o <<x>> \o SubSeq(before, k + 1, Len(before))

RECURSIVE sorted_reverse(_, _)
\* Python's sorted(arts, key=field, reverse=True): a stable sort, descending
sorted_reverse(arts, field) ==
    IF arts = <<>> THEN <<>>
    ELSE LET x == arts[Len(arts)]
             before == sorted_reverse(SubSeq(arts, 1, Len(arts) - 1), field)
             k == Cardinality({i \in 1..Len(before) :
                                  Score(field, before[i]) >= Score(field, x)})
         IN  SubSeq(before, 1, k) \o <<x>> \o SubSeq(before, k + 1, Len(before))

\* an index expression that takes the first element of the sorted list
IndexFirst(s) == IF s = <<>> THEN Null ELSE s[1]

\* jmespath's [-1]: the last element, null on an empty list
IndexLast(s) == IF s = <<>> THEN Null ELSE s[Len(s)]

\* lines 17 and 19-20
MostPopularSelect(arts) == <<IndexLast(sort_by(arts, "popularity"))>>

\* lines 24 and 26-27
MostFollowedSelect(arts) == <<IndexLast(sort_by(arts, "followers.total"))>>

\* a selector that keeps the first artist only
HaltSelectFirst(arts) == SubSeq(arts, 1, IF Len(arts) < 1 THEN Len(arts) ELSE 1)

\* lines 32-33
HaltSelect(arts) == arts

\* self._select(artists), line 5
SelectOf(sel, arts) ==
    CASE sel = "MostPopular" -> MostPopularSelect(arts)
      [] sel = "MostFollowed" -> MostFollowedSelect(arts)
      [] sel = "Halt" -> HaltSelect(arts)

\* lines 4-13: a call of select
Select ==
    /\ spc = "idle"
    /\ \E sel \in Selectors, arts \in CandidateLists :
          /\ selector' = sel
          /\ artists' = arts
          /\ LET selected_artists == SelectOf(sel, arts)
             IN  IF selected_artists = <<>>
                 THEN /\ select_raised' = <<"ValueError", "no match">>
                      /\ spc' = "error"
                      /\ UNCHANGED select_result
                 ELSE IF Len(selected_artists) > 1
                 THEN /\ select_raised' =
                            <<"ValueError", "multiple",
                              [i \in 1..Len(selected_artists) |-> selected_artists[i].uri]>>
                      /\ spc' = "error"
                      /\ UNCHANGED select_result
                 ELSE /\ select_result' = <<selected_artists[1]>>
                      /\ spc' = "done"
                      /\ UNCHANGED select_raised
    /\ UNCHANGED selectFrame

\* artist-relatives.py, lines 178-184 without --ask: the most popular of
\* several exact matches, the only match when there is one
QueryPick ==
    /\ spc = "idle"
    /\ \E exact_matches \in CandidateLists :
          /\ exact_matches # <<>>
          /\ selector' = "sorted"
          /\ artists' = exact_matches
          /\ select_result' = <<IF Len(exact_matches) > 1
                                THEN sorted_reverse(exact_matches, "popularity")[1]
                                ELSE exact_matches[1]>>
    /\ spc' = "done"
    /\ UNCHANGED select_raised
    /\ UNCHANGED selectFrame

(***************************************************************************)
(* relatves-playlist.py: get_all_related_artists, the older traversal      *)
(* (the same function is in create-related-artists-playlist.py).           *)
(***************************************************************************)
RECURSIVE GetRelatedArtists(_, _, _, _, _)
RECURSIVE VisitEachRelated(_, _, _, _, _)

\* lines 92-103: _get_related_artists; visited_ids is the one OrderedSet all
\* the calls share, handed on from call to call; what is returned is that set
GetRelatedArtists(g, seed, visited_ids, d, md) ==
    LET related == OSMinus(related_artist_ids(g, seed), Range(visited_ids))
        marked == OSUpdate(visited_ids, related)
    IN  IF d < md THEN VisitEachRelated(g, related, marked, d + 1, md) ELSE marked

\* lines 100-102: the loop over related_artist_ids
VisitEachRelated(g, todo, visited_ids, d, md) ==
    IF todo = <<>> THEN visited_ids
    ELSE VisitEachRelated(g, Tail(todo),
                          GetRelatedArtists(g, Head(todo), visited_ids, d, md), d, md)

\* lines 105-109
get_all_related_artists(g, seed, md, include_seed) ==
    LET related_artists == IF md > 0 THEN GetRelatedArtists(g, seed, <<seed>>, 1, md)
                           ELSE <<seed>>
    IN  IF ~include_seed THEN OSMinus(related_artists, {seed}) ELSE related_artists

\* the walk of artist-relatives.py is called as line 213 calls it, without
\* excluded artists
CompareCall ==
    /\ wpc = "idle"
    /\ \E root \in Artists, inc \in BOOLEAN, md \in 0..MaxCompareDepth :
          WalkEnter(root, inc, "depth", md, None, {})
    /\ UNCHANGED walkFrame

\* relatves-playlist.py, line 165: the older script's call for the same seed,
\* max_depth and include_seed
LegacyCall ==
    /\ wpc = "done"
    /\ lpc = "idle"
    /\ legacy_result' = get_all_related_artists(graph, root_artist_id, max_depth,
                                                include_root)
    /\ lpc' = "done"
    /\ UNCHANGED legacyFrame

(***************************************************************************)
(* ArtistRelativesApp.create_relatives_playlist, lines 201-217, with the   *)
(* artists already resolved to ids; and a second run one level deeper.     *)
(***************************************************************************)
\* lines 228 and 232-235, 204-209 and 213-214: the call; with
\* exclude_from_parent the parent walk comes first
RunCall ==
    /\ mpc = "idle"
    /\ wpc = "idle"
    /\ \E seed \in Artists, excluded \in ExclusionSets, parent \in Artists \cup {None},
          md \in 0..MaxDepthArg, inc \in BOOLEAN :
          /\ self_max_depth' = md
          /\ self_include_root' = (inc \/ md = 0)
          /\ seed_artist_id' = seed
          /\ explicit_excluded' = excluded
          /\ run_parent_id' = parent
          /\ IF parent # None
             THEN /\ WalkEnterDefault(parent, TRUE, "target", md, seed)
                  /\ mpc' = "parent_walk"
             ELSE /\ WalkEnter(seed, inc \/ md = 0, "depth", md, None, excluded)
                  /\ mpc' = "main_walk"
    /\ UNCHANGED run_relative_ids
    /\ UNCHANGED runFrame

\* lines 208-214: excluded_artist_ids is assigned what the parent walk
\* returned, and the main walk is called with it
RunMainWalk ==
    /\ mpc = "parent_walk"
    /\ wpc = "done"
    /\ WalkEnter(seed_artist_id, self_include_root, "depth", self_max_depth, None,
                 Range(walk_result))
    /\ mpc' = "main_walk"
    /\ UNCHANGED <<self_max_depth, self_include_root, seed_artist_id, explicit_excluded,
                   run_parent_id, run_relative_ids>>
    /\ UNCHANGED runFrame

\* lines 213 and 217: relative_ids is what _gather_tracks is given
RunGather ==
    /\ mpc = "main_walk"
    /\ wpc = "done"
    /\ run_relative_ids' = walk_result
    /\ mpc' = "gather"
    /\ UNCHANGED <<self_max_depth, self_include_root, seed_artist_id, explicit_excluded,
                   run_parent_id>>
    /\ UNCHANGED walkVars
    /\ UNCHANGED runFrame

\* line 213 again, for the same artists, with self.max_depth one more
DeeperCall ==
    /\ wpc = "done"
    /\ halt_kind = "depth"
    /\ max_depth >= 0
    /\ max_depth <= MaxDepthArg
    /\ shallower_result' = walk_result
    /\ has_shallower' = TRUE
    /\ WalkEnter(root_artist_id, include_root, "depth", max_depth + 1, None,
                 excluded_artist_ids)
    /\ UNCHANGED deeperFrame

(***************************************************************************)
(* ArtistRelativesApp._gather_tracks, lines 121-131.  The two lookups are  *)
(* taken by what they return: album_ids_of[a] is the list artist_album_ids *)
(* returns for artist a, track_ids_of[b] the list album_track_ids returns  *)
(* for album b.                                                            *)
(***************************************************************************)
\* the artists gathered from, the albums and the tracks of the catalog
GatherArtists == {1, 2}
AlbumIds == {1, 2}
TrackIds == {1, 2}

\* the lists without a repeat over a set: an OrderedSet, or the albums of an artist
RECURSIVE ListsWithoutRepeat(_)
ListsWithoutRepeat(S) ==
    {<<>>} \cup UNION {{<<x>> \o l : l \in ListsWithoutRepeat(S \ {x})} : x \in S}

\* the lists of track ids the track lookup can return: a track id can be
\* returned for two albums
TrackLists == UNION {[1..n -> TrackIds] : n \in 0..MaxAlbumTracks}

RECURSIVE ChainDistinct(_)
\* a chain that leaves out a value it has seen
ChainDistinct(lists) ==
    IF lists = <<>> THEN <<>>
    ELSE OSUpdate(ChainDistinct(SubSeq(lists, 1, Len(lists) - 1)), lists[Len(lists)])

RECURSIVE ChainFromIterable(_)
\* itertools.chain.from_iterable, as a list (line 125)
ChainFromIterable(lists) ==
    IF lists = <<>> THEN <<>>
    ELSE Head(lists) \o ChainFromIterable(Tail(lists))

\* lines 124-126: the track ids of one artist
RelatedArtistTrackIds(related_artist_id) ==
    LET album_ids == album_ids_of[related_artist_id]
    IN  ChainFromIterable([j \in 1..Len(album_ids) |-> track_ids_of[album_ids[j]]])

\* line 122: a call of _gather_tracks (line 217)
GatherCall ==
    /\ gpc = "idle"
    /\ \E related \in ListsWithoutRepeat(GatherArtists) : gather_artist_ids' = related
    /\ gather_index' = 0
    /\ gather_track_ids' = <<>>
    /\ gpc' = "loop"
    /\ UNCHANGED <<has_first_run, first_track_ids>>
    /\ UNCHANGED gatherFrame

\* lines 123-131: one artist of the loop, or the return after the last
GatherArtist ==
    /\ gpc = "loop"
    /\ IF gather_index < Len(gather_artist_ids)
       THEN /\ gather_track_ids' =
                  gather_track_ids \o RelatedArtistTrackIds(gather_artist_ids[gather_index + 1])
            /\ gather_index' = gather_index + 1
            /\ UNCHANGED gpc
       ELSE /\ gpc' = "done"
            /\ UNCHANGED <<gather_track_ids, gather_index>>
    /\ UNCHANGED <<gather_artist_ids, has_first_run, first_track_ids>>
    /\ UNCHANGED gatherFrame

\* line 217 again, in a second run over the same artists and the same lookups
GatherAgain ==
    /\ gpc = "done"
    /\ ~has_first_run
    /\ has_first_run' = TRUE
    /\ first_track_ids' = gather_track_ids
    /\ gather_index' = 0
    /\ gather_track_ids' = <<>>
    /\ gpc' = "loop"
    /\ UNCHANGED gather_artist_ids
    /\ UNCHANGED gatherFrame

(***************************************************************************)
(* Specifications.                                                         *)
(***************************************************************************)
InitWalk ==
    /\ graph \in Graphs
    /\ WalkIdle
    /\ NoCollection
    /\ CollectIdle
    /\ PlaylistIdle
    /\ LoadIdle
    /\ RestIdle

NextParentWalk == ParentCall \/ WalkTest \/ WalkBody \/ WalkReturn

SpecParentWalk == InitWalk /\ [][NextParentWalk]_vars

\* the program is one thread that runs whenever it can take a step
FairSpecParentWalk == SpecParentWalk /\ WF_vars(NextParentWalk)

NextWalk == DirectCall \/ WalkTest \/ WalkBody \/ WalkReturn

SpecWalk == InitWalk /\ [][NextWalk]_vars

\* a walk with either halt condition
NextAnyWalk == DirectCall \/ ParentCall \/ WalkTest \/ WalkBody \/ WalkReturn

SpecAnyWalk == InitWalk /\ [][NextAnyWalk]_vars

InitCollect ==
    /\ coll_len \in 0..MaxItems
    /\ coll_first \in FirstFlagged
    /\ coll_stride \in 1..MaxStride
    /\ CollectIdle
    /\ graph = {}
    /\ WalkIdle
    /\ PlaylistIdle
    /\ LoadIdle
    /\ RestIdle

NextCollect == CollectCall \/ CollectFetch \/ CollectCheck

SpecCollect == InitCollect /\ [][NextCollect]_vars

\* the program is one thread that runs whenever it can take a step
FairSpecCollect == SpecCollect /\ WF_vars(NextCollect)

InitPlaylist ==
    /\ PlaylistIdle
    /\ graph = {}
    /\ WalkIdle
    /\ NoCollection
    /\ CollectIdle
    /\ LoadIdle
    /\ RestIdle

NextPlaylist ==
    \/ CreatePlaylistCall \/ CreatePlaylistDirect \/ OuterLoop \/ UserPlaylistCreate \/ PlaylistAddTracks
    \/ AppendResponse \/ AfterCreate \/ RenameParts \/ ServiceRaises
    \/ LegacyCreatePlaylist \/ LegacyAddTracks

SpecPlaylist == InitPlaylist /\ [][NextPlaylist]_vars

InitLoad ==
    /\ coll_len \in 0..MaxItems
    /\ coll_first \in FirstFlagged
    /\ coll_stride \in 1..MaxStride
    /\ CollectIdle
    /\ LoadIdle
    /\ graph = {}
    /\ WalkIdle
    /\ PlaylistIdle
    /\ RestIdle

NextLoad ==
    \/ LoadArtistCall \/ GetArtist \/ CollectFetch \/ CollectCheck \/ QueryResult
    \/ PromptForArtist \/ LoadReturn

SpecLoad == InitLoad /\ [][NextLoad]_vars

\* the program is one thread that runs whenever it can take a step
FairSpecLoad == SpecLoad /\ WF_vars(NextLoad)

InitSelect ==
    /\ SelectIdle
    /\ graph = {}
    /\ WalkIdle
    /\ NoCollection
    /\ CollectIdle
    /\ PlaylistIdle
    /\ LoadIdle
    /\ LegacyIdle
    /\ DeeperIdle
    /\ RunIdle
    /\ NoLookups
    /\ GatherIdle

NextSelect == Select \/ QueryPick

SpecSelect == InitSelect /\ [][NextSelect]_vars

InitCompare ==
    /\ graph \in Graphs \cup {ShortcutGraph}
    /\ WalkIdle
    /\ NoCollection
    /\ CollectIdle
    /\ PlaylistIdle
    /\ LoadIdle
    /\ RestIdle

NextCompare == CompareCall \/ WalkTest \/ WalkBody \/ WalkReturn \/ LegacyCall

SpecCompare == InitCompare /\ [][NextCompare]_vars

NextRun == RunCall \/ WalkTest \/ WalkBody \/ WalkReturn \/ RunMainWalk \/ RunGather

SpecRun == InitWalk /\ [][NextRun]_vars

\* a run is tried on the relations with at most one edge and on the three
\* named ones: every relation comes with every choice of seed, parent,
\* excluded artists, max_depth and include_root
EntryGraphs == EdgeSetsUpTo(1) \cup {ScenarioGraph, DiamondGraph, DetourGraph}

InitEntry ==
    /\ graph \in EntryGraphs
    /\ WalkIdle
    /\ NoCollection
    /\ CollectIdle
    /\ PlaylistIdle
    /\ LoadIdle
    /\ RestIdle

\* a run from the command line, or a call of _walk_relatives by itself
NextEntry == DirectCall \/ NextRun

SpecEntry == InitEntry /\ [][NextEntry]_vars

InitGather ==
    /\ album_ids_of \in [GatherArtists -> ListsWithoutRepeat(AlbumIds)]
    /\ track_ids_of \in [AlbumIds -> TrackLists]
    /\ GatherIdle
    /\ graph = {}
    /\ WalkIdle
    /\ NoCollection
    /\ CollectIdle
    /\ PlaylistIdle
    /\ LoadIdle
    /\ SelectIdle
    /\ LegacyIdle
    /\ DeeperIdle
    /\ RunIdle

NextGather == GatherCall \/ GatherArtist \/ GatherAgain

SpecGather == InitGather /\ [][NextGather]_vars

NextDeeper == DirectCall \/ WalkTest \/ WalkBody \/ WalkReturn \/ DeeperCall

SpecDeeper == InitWalk /\ [][NextDeeper]_vars

(***************************************************************************)
(* Properties of the depth-halted walk.                                    *)
(***************************************************************************)
RECURSIVE ReachableWithin(_, _, _, _)
\* the artists reachable from root by a path of at most k edges whose nodes
\* after the root are all outside excluded
ReachableWithin(g, root, k, excluded) ==
    IF k <= 0 THEN {root}
    ELSE LET nearer == ReachableWithin(g, root, k - 1, excluded)
         IN  nearer \cup {e[2] : e \in {f \in g : f[1] \in nearer /\ f[2] \notin excluded}}

DepthWalkDone == wpc = "done" /\ halt_kind = "depth"

\* C1: a depth-halted walk with maxDepth >= 0 returns exactly the artists
\* reachable from the root within maxDepth edges through artists outside the
\* exclusion set, with the root when include_root and without it otherwise;
\* on A->{B,C}, B->{D}, C->{} with maxDepth 2 and no root that is {B,C,D},
\* and {B,C} when D is excluded.
C1_WalkReturnsBoundedReachable ==
    (DepthWalkDone /\ max_depth >= 0) =>
        /\ Range(walk_result) =
              ReachableWithin(graph, root_artist_id, max_depth, excluded_artist_ids)
                 \ (IF include_root THEN {} ELSE {root_artist_id})
        /\ (graph = ScenarioGraph /\ root_artist_id = 1 /\ max_depth = 2 /\ ~include_root) =>
              /\ excluded_artist_ids = {} => Range(walk_result) = {2, 3, 4}
              /\ excluded_artist_ids = {4} => Range(walk_result) = {2, 3}

C1_Witness ==
    /\ DepthWalkDone
    /\ graph = ScenarioGraph /\ root_artist_id = 1 /\ max_depth = 2 /\ ~include_root
    /\ excluded_artist_ids = {4}
    /\ walk_result = <<2, 3>>

\* C2 as stated: no member of the exclusion set is in the set a walk returns.
C2_NoExcludedInResult ==
    DepthWalkDone => Range(walk_result) \cap excluded_artist_ids = {}

\* C2 as amended: no member of the exclusion set other than the root is in
\* the set a walk returns, and the root is in it exactly when include_root is
\* true, whether or not the root is excluded.
C2_NoExcludedButRootInResult ==
    DepthWalkDone =>
        /\ (Range(walk_result) \cap excluded_artist_ids) \subseteq {root_artist_id}
        /\ root_artist_id \in Range(walk_result) <=> include_root

\* the excluded artist 4 is related to both 2 and 3, which the walk expanded
C2_Witness ==
    /\ DepthWalkDone
    /\ graph = DiamondGraph /\ root_artist_id = 1 /\ max_depth = 2 /\ include_root
    /\ excluded_artist_ids = {4}
    /\ walk_result = <<1, 2, 3>>

(***************************************************************************)
(* Properties of the exclusion precomputation walk.                        *)
(***************************************************************************)
\* C5: the exclusion precomputation walk terminates for every relation and
\* every parent/target pair, also when the target cannot be reached.
C5_ParentWalkTerminates == <>(wpc = "done")

(***************************************************************************)
(* Properties of the paginated collector.                                  *)
(***************************************************************************)
\* the whole collection, in collection order
WholeCollection == [i \in 1..coll_len |-> i]

\* C3: with the default, never-halting halt, the collector returns every item
\* of the collection that the extractor accepts, each exactly once, in
\* collection order.
C3_CollectsEveryAcceptedItemOnce ==
    (cpc = "done" /\ coll_op # "search_artist_ids") =>
        values = ExtractValues(coll_op, WholeCollection)

\* C4: the collector terminates on every finite collection, for every
\* extractor and halt predicate.
C4_CollectTerminates == <>(cpc = "done")

(***************************************************************************)
(* Properties of the playlist assembler.                                   *)
(***************************************************************************)
CeilDiv(n, d) == (n + d - 1) \div d

RECURSIVE TracksAddedBetween(_, _, _)
\* the tracks of the add-tracks calls lo..hi that went to playlist id, in call order
TracksAddedBetween(id, lo, hi) ==
    IF lo > hi THEN <<>>
    ELSE IF lo = hi THEN (IF add_calls[lo].id = id THEN add_calls[lo].tracks ELSE <<>>)
    ELSE LET mid == (lo + hi) \div 2
         IN  TracksAddedBetween(id, lo, mid) \o TracksAddedBetween(id, mid + 1, hi)

\* what the add-tracks calls put in one playlist
PlaylistTracks(id) == TracksAddedBetween(id, 1, Len(add_calls))

RECURSIVE AllPlaylistTracksFrom(_)
\* the playlists' tracks from playlist id on, in creation order
AllPlaylistTracksFrom(id) ==
    IF id > Len(playlists) THEN <<>>
    ELSE PlaylistTracks(id) \o AllPlaylistTracksFrom(id + 1)

\* SpotifyWrapper.create_playlist has returned
WrapperCreated == ppc = "created"

CreatePlaylistOver == ppc \in {"done", "error"} /\ raised # "service"

\* C8: when N > 1 playlists are needed _create_playlist completes, the k-th
\* playlist is named "<base name> (part k)" and the N URLs are returned in
\* order; a single playlist keeps the base name.
C8_PartsAreNamed ==
    CreatePlaylistOver =>
        /\ ppc = "done"
        /\ playlist_urls = [i \in 1..Len(playlists) |-> PlaylistUrl(i)]
        /\ \A k \in 1..Len(playlists) :
              playlists[k].name = IF Len(playlists) > 1
                                  THEN PartName(PlaylistBaseName, k - 1)
                                  ELSE PlaylistBaseName

\* C9: a run that ends in an error leaves no playlist on the service.
C9_FailedRunLeavesNoPlaylist == ppc = "error" => playlists = <<>>

(***************************************************************************)
(* Properties of the artist resolver.                                      *)
(***************************************************************************)
\* C10: resolving a well-formed artist URI makes exactly one artist lookup
\* and no search, and returns the pair (catalog id, display name) in that
\* order.
C10_UriResolvesToIdAndName ==
    (rpc = "done" /\ is_artist_uri(artist)) =>
        /\ lookups = 1
        /\ "search" \notin called
        /\ load_result = <<ArtistObject(artist).id, ArtistObject(artist).name>>

\* no artist of the catalog bears the name searched for
NoExactMatch == \A i \in 1..coll_len : ~Flagged(i)

\* C11: resolving a name that no artist of the catalog bears fails with the
\* not-found error (the ValueError of line 197), also when the search
\* answers several pages without a match; no other operation of the service
\* than the search is called.
C11_NoMatchFailsNotFound ==
    /\ [](artist = SearchedName /\ NoExactMatch => called \subseteq {"search"})
    /\ (artist = SearchedName /\ NoExactMatch)
          ~> (rpc = "error" /\ load_raised = "ValueError")

(***************************************************************************)
(* Properties of the selectors.                                            *)
(***************************************************************************)
\* C12: every selector fails with the no-match error when it is given no
\* candidate; none returns a value.
C12_NoCandidateFails ==
    (spc # "idle" /\ selector \in Selectors /\ artists = <<>>) =>
        /\ spc = "error"
        /\ select_raised = <<"ValueError", "no match">>
        /\ select_result = <<>>

\* the score a selection goes by
ScoreField == IF selector = "MostFollowed" THEN "followers.total" ELSE "popularity"

\* a selection by score is over
ScoredSelection ==
    spc # "idle" /\ selector \in {"MostPopular", "MostFollowed", "sorted"} /\ artists # <<>>

\* C13: from a non-empty list the selection by score returns one candidate
\* of the list whose score is at least that of every other; of two
\* candidates of popularity 80 and 95 it returns the one of 95.
C13_SelectsHighestScore ==
    ScoredSelection =>
        /\ spc = "done"
        /\ Len(select_result) = 1
        /\ select_result[1] \in Range(artists)
        /\ \A a \in Range(artists) :
              Score(ScoreField, a) <= Score(ScoreField, select_result[1])

C13_Witness ==
    /\ spc = "done"
    /\ selector = "MostPopular"
    /\ artists = <<[uri |-> 1, popularity |-> 95, followers |-> 10],
                   [uri |-> 2, popularity |-> 80, followers |-> 20]>>
    /\ select_result = <<[uri |-> 1, popularity |-> 95, followers |-> 10]>>

\* C14: Halt returns the candidate when it is given one, and given more than
\* one it fails with the error that names the URI of every candidate.
C14_HaltRefusesToChoose ==
    (spc # "idle" /\ selector = "Halt") =>
        /\ Len(artists) = 1 => spc = "done" /\ select_result = <<artists[1]>>
        /\ Len(artists) > 1 =>
              /\ spc = "error"
              /\ select_raised = <<"ValueError", "multiple",
                                   [i \in 1..Len(artists) |-> artists[i].uri]>>

C14_Witness ==
    /\ spc = "error"
    /\ selector = "Halt"
    /\ artists = <<[uri |-> 1, popularity |-> 80, followers |-> 10],
                   [uri |-> 2, popularity |-> 95, followers |-> 10]>>
    /\ select_raised = <<"ValueError", "multiple", <<1, 2>>>>

(***************************************************************************)
(* Properties of the two traversals.                                       *)
(***************************************************************************)
\* C15: for the same relation, seed, max_depth >= 0 and include flag,
\* get_all_related_artists returns the same set of artists as the walk of
\* artist-relatives.py without excluded artists.
C15_TraversalsAgree ==
    lpc = "done" => Range(legacy_result) = Range(walk_result)

(***************************************************************************)
(* Properties of the page fetches of the collector.                        *)
(***************************************************************************)
\* C16: within one collector call the offsets of successive page fetches are
\* strictly increasing: no page is fetched twice.
C16_NoPageFetchedTwice ==
    \A i, j \in 1..Len(fetches) : i < j => fetches[i] < fetches[j]

\* every fetch of the call is in fetches
FetchesKept == Len(fetches) < MaxFetches

RECURSIVE ValuesOfFetches(_)
\* what the extractor accepts of the pages of the first k fetches, in order
ValuesOfFetches(k) ==
    IF k = 0 THEN <<>>
    ELSE ValuesOfFetches(k - 1)
            \o ExtractValues(coll_op, PageItems(fetches[k], RESULT_LIMIT))

\* haltEarly of the name search: the accumulator is not empty
HaltEarly(vals) == coll_op = "search_artist_ids" /\ vals # <<>>

\* after the k-th fetch haltEarly is true or the page reports no continuation
StopsAfter(k) == HaltEarly(ValuesOfFetches(k)) \/ ~PageNext(fetches[k], RESULT_LIMIT)

\* the page of RESULT_LIMIT items that holds the first exact match
FirstMatchingPage ==
    LET first == CHOOSE i \in 1..coll_len :
                    Flagged(i) /\ \A j \in 1..(i - 1) : ~Flagged(j)
    IN  PageItems(((first - 1) \div RESULT_LIMIT) * RESULT_LIMIT, RESULT_LIMIT)

\* C17: the collector returns right after the first fetch after which
\* haltEarly is true or no continuation is reported, with exactly the items
\* accumulated up to that page; the name search returns only the exact
\* matches of the first page that holds one.
C17_StopsAtHaltingPage ==
    (cpc = "done" /\ FetchesKept) =>
        /\ fetches # <<>>
        /\ StopsAfter(Len(fetches))
        /\ \A k \in 1..(Len(fetches) - 1) : ~StopsAfter(k)
        /\ values = ValuesOfFetches(Len(fetches))
        /\ (coll_op = "search_artist_ids" /\ values # <<>>) =>
              values = ExtractValues(coll_op, FirstMatchingPage)

\* the search stops at its first page, which has matches and a continuation
C17_Witness ==
    /\ cpc = "done"
    /\ coll_op = "search_artist_ids"
    /\ coll_len = 2 * RESULT_LIMIT + 1 /\ coll_first = 2 /\ coll_stride = 2
    /\ fetches = <<0>>
    /\ next
    /\ Len(values) = RESULT_LIMIT \div 2

(***************************************************************************)
(* Properties of a run with excluded artists.                              *)
(***************************************************************************)
\* C18: every artist of excluded_artists is absent from the relatives whose
\* tracks are gathered, also when exclude_from_parent is given.  The seed
\* artist is left out of the statement here: whether the seed is returned
\* goes by include_root alone (C2).
C18_ExplicitExclusionsHonoured ==
    mpc = "gather" =>
        (Range(run_relative_ids) \cap explicit_excluded) \subseteq {seed_artist_id}

(***************************************************************************)
(* Properties of the set the parent walk returns.                          *)
(***************************************************************************)
RECURSIVE PathNodes(_, _, _, _)
\* the artists on the paths of at most maxlen edges, without a repeated
\* artist, that go on from path to the artist t
PathNodes(g, path, t, maxlen) ==
    IF path[Len(path)] = t THEN Range(path)
    ELSE IF Len(path) > maxlen THEN {}
    ELSE UNION {PathNodes(g, Append(path, y), t, maxlen) :
                   y \in {e[2] : e \in {f \in g : f[1] = path[Len(path)]}} \ Range(path)}

ParentWalkDone == wpc = "done" /\ halt_kind = "target"

\* the breadth-first level of the target, which the parent walk has visited
TargetLevel ==
    CHOOSE k \in 0..NumArtists :
        /\ target_id \in ReachableWithin(graph, root_artist_id, k, {})
        /\ \A j \in 0..(k - 1) : target_id \notin ReachableWithin(graph, root_artist_id, j, {})

\* C19 as stated: the set the parent walk returns holds every artist on any
\* path from the parent to the target, the parent, and every artist on the
\* level of the target.
C19_AllPathsExcluded ==
    ParentWalkDone =>
        /\ PathNodes(graph, <<root_artist_id>>, target_id, NumArtists) \subseteq Range(walk_result)
        /\ ReachableWithin(graph, root_artist_id, TargetLevel, {}) \subseteq Range(walk_result)

\* C19 as amended: the set the parent walk returns is the set of the artists
\* at most as many steps from the parent as the target is; it holds the
\* parent, every artist on a shortest path from the parent to the target,
\* and every artist on the level of the target.
C19_ShortestPathsExcluded ==
    ParentWalkDone =>
        /\ target_id \in Range(walk_result)
        /\ Range(walk_result) = ReachableWithin(graph, root_artist_id, TargetLevel, {})
        /\ root_artist_id \in Range(walk_result)
        /\ PathNodes(graph, <<root_artist_id>>, target_id, TargetLevel)
              \subseteq Range(walk_result)

\* 3 is on the path 1, 2, 3, 4 and is not returned; 2, on the level of the
\* target 4, is
C19_Witness ==
    /\ ParentWalkDone
    /\ graph = DetourGraph /\ root_artist_id = 1 /\ target_id = 4
    /\ walk_result = <<1, 2, 4>>

(***************************************************************************)
(* Properties of two walks, the second one level deeper.                   *)
(***************************************************************************)
\* C20: for the same relation, root, exclusion set and include_root, what
\* the depth-halted walk returns with max_depth = k is a subset of what it
\* returns with max_depth = k + 1, and no larger.
C20_MonotoneInMaxDepth ==
    (DepthWalkDone /\ has_shallower) =>
        /\ Range(shallower_result) \subseteq Range(walk_result)
        /\ Len(shallower_result) <= Len(walk_result)

C20_Witness ==
    /\ DepthWalkDone /\ has_shallower
    /\ graph = ScenarioGraph /\ root_artist_id = 1 /\ max_depth = 2 /\ ~include_root
    /\ excluded_artist_ids = {}
    /\ shallower_result = <<2, 3>>
    /\ walk_result = <<2, 3, 4>>

(***************************************************************************)
(* Properties of a walk with max_depth 0.                                  *)
(***************************************************************************)
\* C21: a walk with max_depth = 0 asks the service for no related artists
\* and returns exactly the root when include_root is true and nothing when
\* it is false; a run with max_depth 0 has include_root on, and the artists
\* given to _gather_tracks are exactly the seed artist.
C21_DepthZeroIsJustTheRoot ==
    /\ (DepthWalkDone /\ max_depth = 0) =>
          /\ related_fetches = <<>>
          /\ walk_result = IF include_root THEN <<root_artist_id>> ELSE <<>>
    /\ (mpc # "idle" /\ self_max_depth = 0) => self_include_root
    /\ (mpc = "gather" /\ self_max_depth = 0) => run_relative_ids = <<seed_artist_id>>

\* the seed of the run has related artists, none of which is gathered
C21_Witness ==
    /\ mpc = "gather" /\ self_max_depth = 0
    /\ graph = ScenarioGraph /\ seed_artist_id = 1 /\ run_parent_id = None
    /\ related_fetches = <<>>
    /\ run_relative_ids = <<1>>

(***************************************************************************)
(* Properties of the tracks gathered.                                      *)
(***************************************************************************)
RECURSIVE TracksOfAlbumsBefore(_, _)
\* how many track ids the track lookup returns for the first j albums of artist a
TracksOfAlbumsBefore(a, j) ==
    IF j = 0 THEN 0
    ELSE TracksOfAlbumsBefore(a, j - 1) + Len(track_ids_of[album_ids_of[a][j]])

RECURSIVE TracksOfArtistsBefore(_)
\* how many for all the albums of the first i artists of gather_artist_ids
TracksOfArtistsBefore(i) ==
    IF i = 0 THEN 0
    ELSE TracksOfArtistsBefore(i - 1)
            + TracksOfAlbumsBefore(gather_artist_ids[i], Len(album_ids_of[gather_artist_ids[i]]))

\* C22: what _gather_tracks returns is, artist by artist in the order of its
\* argument and album by album in the order of the album lookup, the track
\* ids the track lookup returned: the k-th track of the j-th album of the
\* i-th artist is at the place that the counts of the tracks before it give,
\* and there is nothing else; a second run returns the same sequence.
C22_TracksInArtistAlbumOrder ==
    gpc = "done" =>
        /\ Len(gather_track_ids) = TracksOfArtistsBefore(Len(gather_artist_ids))
        /\ \A i \in 1..Len(gather_artist_ids) :
              LET a == gather_artist_ids[i]
              IN  \A j \in 1..Len(album_ids_of[a]) :
                     LET tracks == track_ids_of[album_ids_of[a][j]]
                     IN  \A k \in 1..Len(tracks) :
                            gather_track_ids[TracksOfArtistsBefore(i - 1)
                                             + TracksOfAlbumsBefore(a, j - 1) + k] = tracks[k]
        /\ has_first_run => gather_track_ids = first_track_ids

\* artist 2 comes first; track 2 is returned for the album of artist 2 and
\* for the album of artist 1, and is there twice
C22_Witness ==
    /\ gpc = "done" /\ has_first_run
    /\ gather_artist_ids = <<2, 1>>
    /\ album_ids_of = (1 :> <<2>> @@ 2 :> <<1>>)
    /\ track_ids_of = (1 :> <<2, 1>> @@ 2 :> <<2>>)
    /\ gather_track_ids = <<2, 1, 2>>

(***************************************************************************)
(* Properties of the number of levels of the depth-halted walk.            *)
(***************************************************************************)
\* max(max_depth, 0)
DepthLimit == IF max_depth > 0 THEN max_depth ELSE 0

\* how many steps a depth-halted walk has left at most: the test and the body
\* of every level that max_depth still allows, the last test and the return
StepsLeft ==
    CASE wpc = "test" -> 2 * (DepthLimit - depth) + 2
      [] wpc = "body" -> 2 * (DepthLimit - depth) + 1
      [] wpc = "return" -> 1
      [] OTHER -> 0

\* C23: the depth-halted walk ends on every relation, cyclic ones included:
\* every step leaves it fewer steps, of the 2 * max(max_depth, 0) + 2 it has
\* at most; its depth counter never exceeds max(max_depth, 0), the body of
\* its loop runs at most max_depth times, and not at all when max_depth is
\* negative.
C23_EndsWithinMaxDepthLevels ==
    /\ [](halt_kind = "depth" => depth <= DepthLimit /\ body_runs <= DepthLimit)
    /\ [](DepthWalkDone /\ max_depth >= 0 => body_runs = max_depth)
    /\ [](wpc \in {"test", "body", "return"} => StepsLeft \in 1..(2 * DepthLimit + 2))
    /\ [][(wpc \in {"test", "body", "return"}) => StepsLeft' < StepsLeft]_vars

\* the relation has the cycle 1, 2, 4, 1; the walk from 1 ends after two levels
C23_Witness ==
    /\ DepthWalkDone
    /\ graph = DiamondGraph /\ root_artist_id = 1 /\ max_depth = 2
    /\ excluded_artist_ids = {}
    /\ depth = 2 /\ body_runs = 2
    /\ related_fetches = <<1, 2, 3>>

(***************************************************************************)
(* Properties of the order of the calls of create_playlist.                *)
(***************************************************************************)
\* the last track id an add-tracks call carried
LastTrack(call) == call.tracks[Len(call.tracks)]

\* this step is a call to the service that creates a playlist
CreatesPlaylist == Len(playlists') = Len(playlists) + 1

\* this step is an add-tracks call to the service
AddsTracks == add_calls' # add_calls

\* SpotifyWrapper.create_playlist is what runs, not the older create_playlist
InWrapper == caller \in {"_create_playlist", "direct"}

\* C24: in create_playlist every add-tracks call goes to the playlist created
\* last; a playlist is created only when all the tracks of the chunk before
\* it have been sent; every playlist is private unless is_public was passed;
\* and the add-tracks calls to a playlist carry, call after call, the next
\* tracks of its chunk in their order.
C24_CallsOrderedPerChunk ==
    /\ [][(AddsTracks /\ InWrapper) =>
             /\ Len(add_calls') = Len(add_calls) + 1
             /\ SubSeq(add_calls', 1, Len(add_calls)) = add_calls
             /\ playlists' = playlists
             /\ LET call == add_calls'[Len(add_calls')]
                     sent == IF add_calls = <<>> THEN 0
                             ELSE LastTrack(add_calls[Len(add_calls)])
                IN  /\ call.id = Len(playlists)
                    /\ call.tracks # <<>>
                    /\ call.tracks = [i \in 1..Len(call.tracks) |-> sent + i]
                    /\ sent >= (call.id - 1) * MAX_PLAYLIST_SIZE
                    /\ sent + Len(call.tracks) <= call.id * MAX_PLAYLIST_SIZE]_vars
    /\ [][(CreatesPlaylist /\ InWrapper) =>
             /\ add_calls' = add_calls
             /\ playlists # <<>> =>
                   /\ add_calls # <<>>
                   /\ add_calls[Len(add_calls)].id = Len(playlists)
                   /\ LastTrack(add_calls[Len(add_calls)])
                         = Len(playlists) * MAX_PLAYLIST_SIZE]_vars
    /\ [](InWrapper =>
             \A k \in 1..Len(playlists) :
                playlists[k].public = (caller = "direct" /\ is_public))

\* the second playlist of a call with is_public passed is public, and has
\* got the one track the first had no room for
C24_Witness ==
    /\ WrapperCreated
    /\ caller = "direct" /\ is_public
    /\ track_count = MAX_PLAYLIST_SIZE + 1
    /\ Len(playlists) = 2 /\ playlists[2].public
    /\ Len(add_calls[Len(add_calls) - 1].tracks) = MAX_TRACKS_ADDED
    /\ add_calls[Len(add_calls) - 1].id = 1
    /\ add_calls[Len(add_calls)] = [id |-> 2, tracks |-> <<MAX_PLAYLIST_SIZE + 1>>]

(***************************************************************************)
(* Properties of visited and of the frontier during a walk.                *)
(***************************************************************************)
\* s is the beginning of t
IsPrefix(s, t) == Len(s) <= Len(t) /\ SubSeq(t, 1, Len(s)) = s

\* _visit_relatives is running: its locals are those of lines 135-137, up to
\* its return (line 151)
InVisit == wpc \in {"test", "body", "return"}

\* C25: while _visit_relatives runs visited has no duplicates and holds the
\* root, and a step only adds to it, after what was there, in the order it
\* was in; the frontier a level leaves is within visited, and has no artist
\* that was in visited before the level nor any of the exclusion set.
C25_VisitedGrowsFrontierIsNew ==
    /\ [](InVisit =>
             /\ NoDuplicates(visited_artist_ids)
             /\ root_artist_id \in Range(visited_artist_ids))
    /\ [][(InVisit /\ wpc' \in {"test", "body", "return"}) =>
             IsPrefix(visited_artist_ids, visited_artist_ids')]_vars
    /\ [][wpc = "body" =>
             /\ Range(artist_ids') \subseteq Range(visited_artist_ids')
             /\ Range(artist_ids') \cap Range(visited_artist_ids) = {}
             /\ Range(artist_ids') \cap excluded_artist_ids = {}
             /\ NoDuplicates(artist_ids')]_vars

\* the third level of the walk from 2 finds 2 again, related to 1, and
\* leaves 3 alone as the frontier
C25_Witness ==
    /\ wpc = "return" /\ halt_kind = "target"
    /\ graph = DiamondGraph /\ root_artist_id = 2 /\ target_id = 3
    /\ visited_artist_ids = <<2, 4, 1, 3>>
    /\ artist_ids = <<3>>
    /\ depth = 3

(***************************************************************************)
(* Properties of the exclusion set objects.                                *)
(***************************************************************************)
\* C26: a walk leaves the exclusion set it is given as it was: while and
\* after it runs, whether the set was passed or is the default, and also
\* after the root was removed from what the walk returns, the set has the
\* members it had at the call; the default object is empty.
C26_ExclusionSetUntouched ==
    /\ default_excluded_artist_ids = {}
    /\ excluded_artist_ids = excluded_at_call
    /\ excluded_is_default => excluded_artist_ids = default_excluded_artist_ids

\* the main walk of a run was given what the parent walk from 1 returned, found
\* 4, and had its root 2 removed from what it returned
C26_Witness ==
    /\ mpc = "gather"
    /\ graph = DiamondGraph /\ run_parent_id = 1 /\ seed_artist_id = 2
    /\ self_max_depth = 2 /\ ~self_include_root
    /\ ~excluded_is_default
    /\ excluded_at_call = {1, 2, 3}
    /\ excluded_artist_ids = {1, 2, 3}
    /\ run_relative_ids = <<4>>

(***************************************************************************)
(* Properties of the related-artist calls of a walk.                       *)
(***************************************************************************)
\* the artists a path from the root leads to on which no artist after the
\* root is excluded
ReachableAvoiding(g, root, excluded) == ReachableWithin(g, root, NumArtists, excluded)

\* C27: a walk asks for the related artists of no artist twice, only of
\* artists it has visited, and of no excluded artist but the root; an artist
\* that only paths through excluded artists lead to is not visited.
C27_EachArtistFetchedOnce ==
    wpc # "idle" =>
        /\ NoDuplicates(related_fetches)
        /\ Range(related_fetches) \subseteq Range(visited_artist_ids)
        /\ (Range(related_fetches) \cap excluded_artist_ids) \subseteq {root_artist_id}
        /\ Range(visited_artist_ids)
              \subseteq ReachableAvoiding(graph, root_artist_id, excluded_artist_ids)

\* 2 is excluded: it is not asked for, and 4, related to 2 only, is not found
C27_Witness ==
    /\ wpc = "done" /\ halt_kind = "depth"
    /\ graph = ScenarioGraph /\ root_artist_id = 1 /\ max_depth = 2 /\ include_root
    /\ excluded_artist_ids = {2}
    /\ related_fetches = <<1, 3>>
    /\ walk_result = <<1, 3>>

====
